---- MODULE Spec2Model ----
(***************************************************************************)
(* A model of the jsmn tokenizer of src/src/lib.rs: the parser state       *)
(* (pos, toknext, toksuper), the caller-owned token array, the token       *)
(* allocator, the string and primitive scanners and jsmn_parse's scan      *)
(* loop, one action per iteration of that loop.  Bytes are integers        *)
(* 0..255, offsets are 0-based as in the source.                           *)
(***************************************************************************)
EXTENDS Integers, Sequences, FiniteSets, TLC

(***************************************************************************)
(* Bounds of the model.                                                    *)
(***************************************************************************)
\* longest generated well-formed document, in bytes
MaxLen == 8
\* deepest container nesting of a generated document
MaxDepth == 2
\* largest token capacity a caller passes
MaxTokens == 5
\* most jsmn_parse calls a caller makes on one parser state
MaxCalls == 2

(***************************************************************************)
(* Program constants.                                                      *)
(***************************************************************************)
JSMN_UNDEFINED == 0
JSMN_OBJECT == 1
JSMN_ARRAY == 2
JSMN_STRING == 3
JSMN_PRIMITIVE == 4
JSMN_ERROR_NOMEM == -1
JSMN_ERROR_INVAL == -2
JSMN_ERROR_PART == -3
\* the null token pointer that jsmn_alloc_token returns on exhaustion
NullTok == -1

(***************************************************************************)
(* Machine arithmetic and buffer access.  pos and toknext are u32; a u32   *)
(* is held here as the i32 with the same 32 bits (0xFFFFFFFF is -1), so    *)
(* that wrapping arithmetic and the casts to libc::c_int are exact.        *)
(***************************************************************************)
I32Max == 2147483647
I32Min == -I32Max - 1
WrappingAdd(x, y) ==
    IF y > 0 /\ x > I32Max - y THEN (x + I32Min) + (y + I32Min) ELSE x + y
WrappingSub(x, y) ==
    IF y > 0 /\ x < I32Min + y THEN (x - I32Min) + (I32Max - y) + 1 ELSE x - y
\* u32 as libc::c_int: the same bits
AsCInt(x) == x
\* libc::c_int as libc::c_uint: the same bits
AsCUInt(x) == x
\* (x as libc::c_ulong) < y, x a u32 and y a size_t below 2^31
ULess(x, y) == x >= 0 /\ x < y
\* *js.offset(pos) as libc::c_int: c_char is i8, bytes 128..255 read negative
CharAt(js, pos) == IF js[pos + 1] >= 128 THEN js[pos + 1] - 256 ELSE js[pos + 1]
\* *tokens.offset(i)
Tok(tokens, i) == tokens[i + 1]

\* JsmnToken::default()
DefaultToken == [type_0 |-> 0, start |-> 0, end |-> 0, size |-> 0]
\* vec![JsmnToken::default(); n]
TokenArray(n) == [i \in 1..n |-> DefaultToken]
\* JsmnParser::new()
JsmnParser_new == [pos |-> 0, toknext |-> 0, toksuper |-> -1]

\* the loop condition shared by every scan: inside the buffer and not at a NUL
InBuffer(js, len, pos) == ULess(pos, len) /\ CharAt(js, pos) # 0
\* a token whose start is set and whose end is not: an unclosed container
IsOpen(tok) == tok.start # -1 /\ tok.end = -1
\* the cursor put back on the first byte of the element being scanned
\* a scanner that returns an error without putting the cursor back
Rewind_Stay(parser, start) == parser
Rewind(parser, start) == [parser EXCEPT !.pos = AsCUInt(start)]

(***************************************************************************)
(* jsmn_alloc_token: the next free slot, reset, or the null pointer.       *)
(***************************************************************************)
\* an allocator that gives up one slot early
jsmn_alloc_token_OneShort(parser, tokens, num_tokens) ==
    IF ~ULess(WrappingAdd(parser.toknext, 1), num_tokens)
    THEN [tok |-> NullTok, parser |-> parser, tokens |-> tokens]
    ELSE [tok |-> parser.toknext,
          parser |-> [parser EXCEPT !.toknext = WrappingAdd(parser.toknext, 1)],
          tokens |-> [tokens EXCEPT ![parser.toknext + 1] =
                          [@ EXCEPT !.start = -1, !.end = -1, !.size = 0]]]
jsmn_alloc_token(parser, tokens, num_tokens) ==
    IF ~ULess(parser.toknext, num_tokens)
    THEN [tok |-> NullTok, parser |-> parser, tokens |-> tokens]
    ELSE [tok |-> parser.toknext,
          parser |-> [parser EXCEPT !.toknext = WrappingAdd(parser.toknext, 1)],
          tokens |-> [tokens EXCEPT ![parser.toknext + 1] =
                          [@ EXCEPT !.start = -1, !.end = -1, !.size = 0]]]

\* a fill that writes the two offsets the wrong way round
jsmn_fill_token_Swapped(token, type_0, start, end) ==
    [type_0 |-> type_0, start |-> end, end |-> start, size |-> 0]
jsmn_fill_token(token, type_0, start, end) ==
    [type_0 |-> type_0, start |-> start, end |-> end, size |-> 0]

\* (*t).size += 1 on the super token, when there is one
IncSuperSize(parser, tokens) ==
    IF parser.toksuper # -1
    THEN [tokens EXCEPT ![parser.toksuper + 1].size = @ + 1]
    ELSE tokens

(***************************************************************************)
(* jsmn_parse_primitive.                                                   *)
(***************************************************************************)
\* a delimiter set that forgets ']'
IsDelimiter_NoBracket(c) == c \in {58, 9, 13, 10, 32, 44, 125}
IsDelimiter(c) == c \in {58, 9, 13, 10, 32, 44, 93, 125}
\* a printable test that forgets the upper limit
IsPrintable_NoUpper(c) == ~(c < 32)
IsPrintable(c) == ~(c < 32 \/ c >= 127)

RECURSIVE PrimitiveScan(_, _, _)
\* the scanner's loop: where it stops, and whether on a non-printable byte
PrimitiveScan(js, len, pos) ==
    IF InBuffer(js, len, pos)
    THEN IF IsDelimiter(CharAt(js, pos))
         THEN [inval |-> FALSE, pos |-> pos]
         ELSE IF ~IsPrintable(CharAt(js, pos))
              THEN [inval |-> TRUE, pos |-> pos]
              ELSE PrimitiveScan(js, len, WrappingAdd(pos, 1))
    ELSE [inval |-> FALSE, pos |-> pos]

jsmn_parse_primitive(parser, js, len, tokens, num_tokens, null) ==
    LET start == AsCInt(parser.pos)
        scan == PrimitiveScan(js, len, parser.pos)
        at == [parser EXCEPT !.pos = scan.pos]
        a == jsmn_alloc_token(at, tokens, num_tokens)
    IN  IF scan.inval
        THEN [r |-> JSMN_ERROR_INVAL, parser |-> Rewind(at, start), tokens |-> tokens]
        ELSE IF null
        THEN [r |-> 0, parser |-> [at EXCEPT !.pos = WrappingSub(scan.pos, 1)],
              tokens |-> tokens]
        ELSE IF a.tok = NullTok
        THEN [r |-> JSMN_ERROR_NOMEM, parser |-> Rewind(a.parser, start),
              tokens |-> a.tokens]
        ELSE [r |-> 0,
              parser |-> [a.parser EXCEPT !.pos = WrappingSub(scan.pos, 1)],
              tokens |-> [a.tokens EXCEPT ![a.tok + 1] =
                              jsmn_fill_token(@, JSMN_PRIMITIVE, start, AsCInt(scan.pos))]]

(***************************************************************************)
(* jsmn_parse_string.                                                      *)
(***************************************************************************)
IsEscape(c) == c \in {34, 47, 92, 98, 102, 114, 110, 116}
\* a hex test whose lower-case range runs one letter too far
IsHex_ToG(c) == (c >= 48 /\ c <= 57) \/ (c >= 65 /\ c <= 70) \/ (c >= 97 /\ c <= 103)
IsHex(c) == (c >= 48 /\ c <= 57) \/ (c >= 65 /\ c <= 70) \/ (c >= 97 /\ c <= 102)

RECURSIVE HexScan(_, _, _, _)
\* the \uXXXX loop: up to four hex digits, stopping at the end of the buffer
HexScan(js, len, pos, i) ==
    IF i < 4 /\ InBuffer(js, len, pos)
    THEN IF ~IsHex(CharAt(js, pos))
         THEN [inval |-> TRUE, pos |-> pos]
         ELSE HexScan(js, len, WrappingAdd(pos, 1), i + 1)
    ELSE [inval |-> FALSE, pos |-> pos]

RECURSIVE StringScan(_, _, _)
\* the scanner's loop from the byte after the opening quote: the closing
\* quote ("quote"), a bad escape ("inval") or the end of the buffer ("part")
StringScan(js, len, pos) ==
    IF InBuffer(js, len, pos)
    THEN LET c == CharAt(js, pos)
             p1 == WrappingAdd(pos, 1)
             h == HexScan(js, len, WrappingAdd(p1, 1), 0)
         IN  IF c = 34
             THEN [kind |-> "quote", pos |-> pos]
             ELSE IF c = 92 /\ ULess(p1, len)
             THEN IF IsEscape(CharAt(js, p1))
                  THEN StringScan(js, len, WrappingAdd(p1, 1))
                  ELSE IF CharAt(js, p1) = 117
                  THEN IF h.inval
                       THEN [kind |-> "inval", pos |-> h.pos]
                       ELSE StringScan(js, len, WrappingAdd(WrappingSub(h.pos, 1), 1))
                  ELSE [kind |-> "inval", pos |-> p1]
             ELSE StringScan(js, len, p1)
    ELSE [kind |-> "part", pos |-> pos]

jsmn_parse_string(parser, js, len, tokens, num_tokens, null) ==
    LET start == AsCInt(parser.pos)
        scan == StringScan(js, len, WrappingAdd(parser.pos, 1))
        at == [parser EXCEPT !.pos = scan.pos]
        a == jsmn_alloc_token(at, tokens, num_tokens)
    IN  IF scan.kind = "inval"
        THEN [r |-> JSMN_ERROR_INVAL, parser |-> Rewind(at, start), tokens |-> tokens]
        ELSE IF scan.kind = "part"
        THEN [r |-> JSMN_ERROR_PART, parser |-> Rewind(at, start), tokens |-> tokens]
        ELSE IF null
        THEN [r |-> 0, parser |-> at, tokens |-> tokens]
        ELSE IF a.tok = NullTok
        THEN [r |-> JSMN_ERROR_NOMEM, parser |-> Rewind(a.parser, start),
              tokens |-> a.tokens]
        ELSE [r |-> 0, parser |-> a.parser,
              tokens |-> [a.tokens EXCEPT ![a.tok + 1] =
                              jsmn_fill_token(@, JSMN_STRING, start + 1, AsCInt(scan.pos))]]

(***************************************************************************)
(* jsmn_parse: the branches of the scan loop.  Each takes the parser, the  *)
(* token array and the call's running count, and gives what the branch     *)
(* leaves: done (the call returns r) or not (the loop goes on).            *)
(***************************************************************************)
Go(parser, tokens, count) ==
    [done |-> FALSE, r |-> 0, parser |-> parser, tokens |-> tokens, count |-> count]
Ret(r, parser, tokens, count) ==
    [done |-> TRUE, r |-> r, parser |-> parser, tokens |-> tokens, count |-> count]

RECURSIVE FindOpen(_, _)
\* the backward scan for the nearest open token at or below i; -1 when none
FindOpen(tokens, i) ==
    IF i >= 0
    THEN IF IsOpen(Tok(tokens, i)) THEN i ELSE FindOpen(tokens, i - 1)
    ELSE -1

RECURSIVE FindOpenContainer(_, _)
\* the comma's backward scan: the nearest open Object or Array at or below i
FindOpenContainer(tokens, i) ==
    IF i >= 0
    THEN IF (Tok(tokens, i).type_0 = JSMN_ARRAY \/ Tok(tokens, i).type_0 = JSMN_OBJECT)
            /\ IsOpen(Tok(tokens, i))
         THEN i
         ELSE FindOpenContainer(tokens, i - 1)
    ELSE -1

\* an open bracket that does not count the container on its super
OpenBracket_NoCount(parser, tokens, num_tokens, null, count, c) ==
    LET a == jsmn_alloc_token(parser, tokens, num_tokens)
        opened == [a.tokens EXCEPT ![a.tok + 1] =
                       [@ EXCEPT !.type_0 = IF c = 123 THEN JSMN_OBJECT ELSE JSMN_ARRAY,
                                 !.start = AsCInt(parser.pos)]]
    IN  IF null
        THEN Go(parser, tokens, count + 1)
        ELSE IF a.tok = NullTok
        THEN Ret(JSMN_ERROR_NOMEM, a.parser, a.tokens, count + 1)
        ELSE Go([a.parser EXCEPT !.toksuper = AsCInt(WrappingSub(a.parser.toknext, 1))],
                opened, count + 1)

\* an open bracket that counts the container only when there is a token array
OpenBracket_NullNoCount(parser, tokens, num_tokens, null, count, c) ==
    LET a == jsmn_alloc_token(parser, tokens, num_tokens)
        counted == IncSuperSize(a.parser, a.tokens)
        opened == [counted EXCEPT ![a.tok + 1] =
                       [@ EXCEPT !.type_0 = IF c = 123 THEN JSMN_OBJECT ELSE JSMN_ARRAY,
                                 !.start = AsCInt(parser.pos)]]
    IN  IF null
        THEN Go(parser, tokens, count)
        ELSE IF a.tok = NullTok
        THEN Ret(JSMN_ERROR_NOMEM, a.parser, a.tokens, count + 1)
        ELSE Go([a.parser EXCEPT !.toksuper = AsCInt(WrappingSub(a.parser.toknext, 1))],
                opened, count + 1)

\* '{' and '[': allocate the container, count it on its super, make it the super
OpenBracket(parser, tokens, num_tokens, null, count, c) ==
    LET a == jsmn_alloc_token(parser, tokens, num_tokens)
        counted == IncSuperSize(a.parser, a.tokens)
        opened == [counted EXCEPT ![a.tok + 1] =
                       [@ EXCEPT !.type_0 = IF c = 123 THEN JSMN_OBJECT ELSE JSMN_ARRAY,
                                 !.start = AsCInt(parser.pos)]]
    IN  IF null
        THEN Go(parser, tokens, count + 1)
        ELSE IF a.tok = NullTok
        THEN Ret(JSMN_ERROR_NOMEM, a.parser, a.tokens, count + 1)
        ELSE Go([a.parser EXCEPT !.toksuper = AsCInt(WrappingSub(a.parser.toknext, 1))],
                opened, count + 1)

\* a close that does not compare the bracket with the open token's kind
CloseBracket_NoKindCheck(parser, tokens, null, count, c) ==
    LET i == FindOpen(tokens, AsCInt(WrappingSub(parser.toknext, 1)))
        closed == [tokens EXCEPT ![i + 1].end = AsCInt(WrappingAdd(parser.pos, 1))]
        up == FindOpen(closed, i)
    IN  IF null
        THEN Go(parser, tokens, count)
        ELSE IF i = -1
        THEN Ret(JSMN_ERROR_INVAL, parser, tokens, count)
        ELSE Go([parser EXCEPT !.toksuper = IF up >= 0 THEN up ELSE -1], closed, count)

\* a close that sets the end of the last allocated token, open or not
CloseBracket_Reclose(parser, tokens, null, count, c) ==
    LET i == AsCInt(WrappingSub(parser.toknext, 1))
        closed == [tokens EXCEPT ![i + 1].end = AsCInt(WrappingAdd(parser.pos, 1))]
        up == FindOpen(closed, i)
    IN  IF null
        THEN Go(parser, tokens, count)
        ELSE IF i = -1
        THEN Ret(JSMN_ERROR_INVAL, parser, tokens, count)
        ELSE Go([parser EXCEPT !.toksuper = IF up >= 0 THEN up ELSE -1], closed, count)

\* a close that leaves the super where it was
CloseBracket_SuperStays(parser, tokens, null, count, c) ==
    LET type_0 == IF c = 125 THEN JSMN_OBJECT ELSE JSMN_ARRAY
        i == FindOpen(tokens, AsCInt(WrappingSub(parser.toknext, 1)))
        closed == [tokens EXCEPT ![i + 1].end = AsCInt(WrappingAdd(parser.pos, 1))]
    IN  IF null
        THEN Go(parser, tokens, count)
        ELSE IF i = -1
        THEN Ret(JSMN_ERROR_INVAL, parser, tokens, count)
        ELSE IF Tok(tokens, i).type_0 # type_0
        THEN Ret(JSMN_ERROR_INVAL, parser, tokens, count)
        ELSE Go(parser, closed, count)

\* '}' and ']': close the nearest open token, restore the enclosing one as super
CloseBracket(parser, tokens, null, count, c) ==
    LET type_0 == IF c = 125 THEN JSMN_OBJECT ELSE JSMN_ARRAY
        i == FindOpen(tokens, AsCInt(WrappingSub(parser.toknext, 1)))
        closed == [tokens EXCEPT ![i + 1].end = AsCInt(WrappingAdd(parser.pos, 1))]
        up == FindOpen(closed, i)
    IN  IF null
        THEN Go(parser, tokens, count)
        ELSE IF i = -1
        THEN Ret(JSMN_ERROR_INVAL, parser, tokens, count)
        ELSE IF Tok(tokens, i).type_0 # type_0
        THEN Ret(JSMN_ERROR_INVAL, parser, tokens, count)
        ELSE Go([parser EXCEPT !.toksuper = IF up >= 0 THEN up ELSE -1], closed, count)

\* a string branch that counts the string on its super before looking at r
QuoteBranch_CountsFirst(parser, js, len, tokens, num_tokens, null, count) ==
    LET s == jsmn_parse_string(parser, js, len, tokens, num_tokens, null)
        counted == IF null THEN s.tokens ELSE IncSuperSize(s.parser, s.tokens)
    IN  IF s.r < 0
        THEN Ret(s.r, s.parser, counted, count)
        ELSE Go(s.parser, counted, count + 1)

\* '"': the string scanner, then the super's size
QuoteBranch(parser, js, len, tokens, num_tokens, null, count) ==
    LET s == jsmn_parse_string(parser, js, len, tokens, num_tokens, null)
    IN  IF s.r < 0
        THEN Ret(s.r, s.parser, s.tokens, count)
        ELSE Go(s.parser,
                IF null THEN s.tokens ELSE IncSuperSize(s.parser, s.tokens),
                count + 1)

\* a colon that leaves the super where it was
ColonBranch_KeepsSuper(parser, tokens, count) == Go(parser, tokens, count)

\* a colon that makes the next token to be allocated the super
ColonBranch_Next(parser, tokens, count) ==
    Go([parser EXCEPT !.toksuper = AsCInt(parser.toknext)], tokens, count)

\* ':': the token just emitted (the key) becomes the super
ColonBranch(parser, tokens, count) ==
    Go([parser EXCEPT !.toksuper = AsCInt(WrappingSub(parser.toknext, 1))], tokens, count)

\* ',': when the super is a key or a value, go back to the open container
CommaBranch(parser, tokens, null, count) ==
    LET i == FindOpenContainer(tokens, AsCInt(WrappingSub(parser.toknext, 1)))
    IN  IF ~null
           /\ parser.toksuper # -1
           /\ Tok(tokens, parser.toksuper).type_0 # JSMN_ARRAY
           /\ Tok(tokens, parser.toksuper).type_0 # JSMN_OBJECT
           /\ i >= 0
        THEN Go([parser EXCEPT !.toksuper = i], tokens, count)
        ELSE Go(parser, tokens, count)

\* a primitive branch that forgets count += 1
PrimitiveBranch_NoCount(parser, js, len, tokens, num_tokens, null, count) ==
    LET s == jsmn_parse_primitive(parser, js, len, tokens, num_tokens, null)
    IN  IF s.r < 0
        THEN Ret(s.r, s.parser, s.tokens, count)
        ELSE Go(s.parser,
                IF null THEN s.tokens ELSE IncSuperSize(s.parser, s.tokens),
                count)

\* any other byte: the primitive scanner, then the super's size
PrimitiveBranch(parser, js, len, tokens, num_tokens, null, count) ==
    LET s == jsmn_parse_primitive(parser, js, len, tokens, num_tokens, null)
    IN  IF s.r < 0
        THEN Ret(s.r, s.parser, s.tokens, count)
        ELSE Go(s.parser,
                IF null THEN s.tokens ELSE IncSuperSize(s.parser, s.tokens),
                count + 1)

\* the match on the current byte
LoopBody(parser, js, len, tokens, num_tokens, null, count) ==
    LET c == CharAt(js, parser.pos)
    IN  IF c = 123 \/ c = 91 THEN OpenBracket(parser, tokens, num_tokens, null, count, c)
        ELSE IF c = 125 \/ c = 93 THEN CloseBracket(parser, tokens, null, count, c)
        ELSE IF c = 34 THEN QuoteBranch(parser, js, len, tokens, num_tokens, null, count)
        ELSE IF c \in {9, 13, 10, 32} THEN Go(parser, tokens, count)
        ELSE IF c = 58 THEN ColonBranch(parser, tokens, count)
        ELSE IF c = 44 THEN CommaBranch(parser, tokens, null, count)
        ELSE PrimitiveBranch(parser, js, len, tokens, num_tokens, null, count)

\* an iteration that ends without the increment
Advance_Stay(parser) == parser
\* the increment that ends every iteration that did not return
Advance(parser) == [parser EXCEPT !.pos = WrappingAdd(parser.pos, 1)]

\* an end of call that does not look for open tokens
EndOfBuffer_NoOpenCheck(parser, tokens, null, count) == count

\* an end of call that looks at the last allocated token only
EndOfBuffer_LastOnly(parser, tokens, null, count) ==
    IF ~null /\ parser.toknext > 0 /\ IsOpen(Tok(tokens, parser.toknext - 1))
    THEN JSMN_ERROR_PART
    ELSE count

\* after the loop: Part when a token is still open, else the count
EndOfBuffer(parser, tokens, null, count) ==
    IF ~null /\ FindOpen(tokens, AsCInt(WrappingSub(parser.toknext, 1))) >= 0
    THEN JSMN_ERROR_PART
    ELSE count

RECURSIVE ScanLoop(_, _, _, _, _, _, _)
ScanLoop(parser, js, len, tokens, num_tokens, null, count) ==
    IF InBuffer(js, len, parser.pos)
    THEN LET b == LoopBody(parser, js, len, tokens, num_tokens, null, count)
         IN  IF b.done
             THEN [r |-> b.r, parser |-> b.parser, tokens |-> b.tokens]
             ELSE ScanLoop(Advance(b.parser), js, len, b.tokens, num_tokens, null, b.count)
    ELSE [r |-> EndOfBuffer(parser, tokens, null, count),
          parser |-> parser, tokens |-> tokens]

\* a count that starts from zero on every call
EntryCount_Zero(parser) == 0
\* let mut count = (*parser).toknext as libc::c_int
EntryCount(parser) == AsCInt(parser.toknext)

\* one whole call: what it returns and what it leaves in the parser and the array
jsmn_parse(parser, js, len, tokens, num_tokens, null) ==
    ScanLoop(parser, js, len, tokens, num_tokens, null, EntryCount(parser))

(***************************************************************************)
(* The documents the caller feeds.  A well-formed document is built from   *)
(* the JSON grammar together with the tokens the grammar gives it: kind,   *)
(* [start, end) and number of children (for a key, its value) of every     *)
(* element, in document order.                                             *)
(***************************************************************************)
Max(a, b) == IF a >= b THEN a ELSE b
Shift(toks, k) ==
    [i \in 1..Len(toks) |-> [toks[i] EXCEPT !.start = @ + k, !.end = @ + k]]

\* a number, true, false or null
Prim(text) ==
    [text |-> text, depth |-> 0,
     toks |-> <<[type_0 |-> JSMN_PRIMITIVE, start |-> 0, end |-> Len(text), size |-> 0]>>]
\* a string: the token leaves the quotes out
Strg(content) ==
    [text |-> <<34>> \o content \o <<34>>, depth |-> 0,
     toks |-> <<[type_0 |-> JSMN_STRING, start |-> 1, end |-> 1 + Len(content), size |-> 0]>>]
\* white space before or after an element
Lead(e) == [e EXCEPT !.text = <<32>> \o @, !.toks = Shift(@, 1)]
Trail(e) == [e EXCEPT !.text = @ \o <<32>>]

\* a comma-separated list of elements
EmptyList == [text |-> <<>>, toks |-> <<>>, n |-> 0, depth |-> 0]
AddItem(l, e) ==
    LET sep == IF l.n = 0 THEN <<>> ELSE <<44>>
    IN  [text |-> l.text \o sep \o e.text,
         toks |-> l.toks \o Shift(e.toks, Len(l.text) + Len(sep)),
         n |-> l.n + 1,
         depth |-> Max(l.depth, e.depth)]
\* key : value, the key token counting its value
Member(k, v) ==
    [text |-> k.text \o <<58>> \o v.text, depth |-> v.depth,
     toks |-> [i \in 1..Len(k.toks) |-> [k.toks[i] EXCEPT !.size = 1]]
              \o Shift(v.toks, Len(k.text) + 1)]
Container(type_0, open, close, l) ==
    [text |-> <<open>> \o l.text \o <<close>>, depth |-> l.depth + 1,
     toks |-> <<[type_0 |-> type_0, start |-> 0, end |-> Len(l.text) + 2, size |-> l.n]>>
              \o Shift(l.toks, 1)]
Arr(l) == Container(JSMN_ARRAY, 91, 93, l)
Obj(l) == Container(JSMN_OBJECT, 123, 125, l)

\* 1, 12, "", "a", "]", "\""
Primitives == {Prim(<<49>>), Prim(<<49, 50>>)}
Strings == {Strg(<<>>), Strg(<<97>>), Strg(<<93>>), Strg(<<92, 34>>)}

RECURSIVE Lists(_, _)
\* the lists of at most k items of S that fit a container of MaxLen bytes
Lists(S, k) ==
    IF k = 0
    THEN {EmptyList}
    ELSE LET shorter == Lists(S, k - 1)
         IN  shorter \cup
             {AddItem(l, e) : <<l, e>> \in
                 {p \in {x \in shorter : x.n = k - 1} \X S :
                      Len(AddItem(p[1], p[2]).text) + 2 <= MaxLen}}

RECURSIVE Values(_)
\* the JSON values nested at most d deep and at most MaxLen bytes long
Values(d) ==
    IF d = 0
    THEN Primitives \cup Strings
    ELSE LET inner == Values(d - 1)
             members == {Member(k, v) : <<k, v>> \in
                            {p \in Strings \X inner :
                                 Len(p[1].text) + Len(p[2].text) + 3 <= MaxLen}}
         IN  inner
             \cup {Arr(l) : l \in Lists(inner, MaxLen \div 2)}
             \cup {Obj(l) : l \in Lists(members, MaxLen \div 4)}

Generated == Values(MaxDepth)

\* documents with white space, a \u escape, and the longer documents of the
\* examples: {"a":1,"":12}, {"a": "b", "c": 100}, ["123", {"a": 1, "b": "c"}, 123]
Spaced ==
    {Lead(Prim(<<49>>)), Trail(Prim(<<49, 50>>)), Trail(Arr(AddItem(EmptyList, Prim(<<49>>)))),
     Lead(Strg(<<97>>)), Strg(<<92, 117, 48, 97, 70, 49>>),
     Arr(AddItem(AddItem(EmptyList, Prim(<<49>>)), Lead(Prim(<<49, 50>>)))),
     Obj(AddItem(EmptyList, Member(Strg(<<97>>), Lead(Prim(<<49>>)))))}
Examples ==
    {Obj(AddItem(AddItem(EmptyList, Member(Strg(<<97>>), Prim(<<49>>))),
                 Member(Strg(<<>>), Prim(<<49, 50>>)))),
     Obj(AddItem(AddItem(EmptyList, Member(Strg(<<97>>), Lead(Strg(<<98>>)))),
                 Member(Lead(Strg(<<99>>)), Lead(Prim(<<49, 48, 48>>))))),
     Arr(AddItem(AddItem(AddItem(EmptyList, Strg(<<49, 50, 51>>)),
                         Lead(Obj(AddItem(AddItem(EmptyList,
                                  Member(Strg(<<97>>), Lead(Prim(<<49>>)))),
                                  Member(Lead(Strg(<<98>>)), Lead(Strg(<<99>>))))))),
                 Lead(Prim(<<49, 50, 51>>))))}

WellFormed ==
    {[text |-> e.text, toks |-> e.toks, depth |-> e.depth, wf |-> TRUE] :
        e \in Generated \cup Spaced \cup Examples}

\* bytes outside 0x20..0x7E that are not the delimiters tab, LF, CR
NonPrintable == {0, 1, 8, 11, 31, 127, 128, 200, 255}
\* texts that are not JSON: unmatched and mismatched brackets, bytes that are
\* not printable inside a primitive, unterminated strings and bad escapes
MalformedTexts ==
    {<<123, 34, 97, 34, 58, 49, 93>>,       \* {"a":1]
     <<91, 49, 125>>,                       \* [1}
     <<91, 91, 49, 93, 125>>,               \* [[1]}
     <<91, 93, 93>>,                        \* []]
     <<93>>, <<125>>,                       \* ]  }
     <<49, 93>>,                            \* 1]
     <<58, 49>>,                            \* :1
     <<44, 49>>,                            \* ,1
     <<49, 32, 50>>,                        \* 1 2
     <<91, 49, 44, 44, 50>>,                \* [1,,2
     <<34, 97, 98, 99>>,                    \* "abc
     <<34, 97, 92>>,                        \* "a\
     <<34, 92, 113, 34>>,                   \* "\q"
     <<34, 92, 0, 34>>,                     \* "\<NUL>"
     <<34, 97, 0, 34>>,                     \* "a<NUL>"
     <<34, 92, 117, 49, 50, 103, 52, 34>>,  \* "\u12g4"
     <<34, 92, 117, 49, 50, 34>>,           \* "\u12"
     <<34, 92, 117, 49, 0, 50, 51, 34>>,    \* "\u1<NUL>23"
     <<91, 49, 44, 34, 92, 120, 34, 93>>,   \* [1,"\x"]
     <<91, 49, 44, 34, 92, 117, 122, 34>>,  \* [1,"\uz"
     <<123, 34, 97, 34, 58, 34, 98>>}       \* {"a":"b
    \cup {<<49, b, 50>> : b \in NonPrintable}
    \cup {<<b, 49>> : b \in NonPrintable}
    \cup {<<91, 49, 44, 50, b, 93>> : b \in NonPrintable}
Malformed ==
    {[text |-> t, toks |-> <<>>, depth |-> 0, wf |-> FALSE] : t \in MalformedTexts}

Docs == WellFormed \cup Malformed

(***************************************************************************)
(* The state: the caller's buffer and token array, the parser, and where   *)
(* the running call is.                                                    *)
(***************************************************************************)
VARIABLES
    doc,         \* the document the buffer holds: its bytes, and for a well-formed one its grammar's tokens
    len,         \* the length passed to jsmn_parse: the bytes of the buffer fed so far
    tokens,      \* the caller's token array
    num_tokens,  \* its capacity
    null,        \* TRUE when the caller passes a null token pointer
    parser,      \* JsmnParser: pos, toknext, toksuper
    count,       \* the running call's count
    r,           \* what the last call returned
    pc,          \* "idle" before a call, "scan" inside the scan loop, "done" after the return
    hist         \* the calls that returned: their arguments, result, and the state they left

vars == <<doc, len, tokens, num_tokens, null, parser, count, r, pc, hist>>

js == doc.text

\* the capacities a caller chooses: small ones, the document's own token
\* count, and one slot less
Capacities(d) ==
    (0..MaxTokens) \cup {n \in {Len(d.toks) - 1, Len(d.toks)} : n >= 0}

Init ==
    /\ doc \in Docs
    /\ len \in 1..Len(doc.text)
    /\ null \in BOOLEAN
    /\ num_tokens \in IF null THEN {0} ELSE Capacities(doc)
    /\ tokens = TokenArray(num_tokens)
    /\ parser = JsmnParser_new
    /\ count = 0
    /\ r = 0
    /\ pc = "idle"
    /\ hist = <<>>

(***************************************************************************)
(* The caller.                                                             *)
(***************************************************************************)
\* jsmn_parse is entered: count starts at toknext
Call ==
    /\ pc = "idle"
    /\ pc' = "scan"
    /\ count' = EntryCount(parser)
    /\ UNCHANGED <<doc, len, tokens, num_tokens, null, parser, r, hist>>

\* the caller calls again with the same buffer and the same array
Retry ==
    /\ pc = "done"
    /\ Len(hist) < MaxCalls
    /\ pc' = "idle"
    /\ UNCHANGED <<doc, len, tokens, num_tokens, null, parser, count, r, hist>>

\* the caller appends the rest of the document and calls again
Feed ==
    /\ pc = "done"
    /\ Len(hist) < MaxCalls
    /\ len < Len(js)
    /\ len' = Len(js)
    /\ pc' = "idle"
    /\ UNCHANGED <<doc, tokens, num_tokens, null, parser, count, r, hist>>

\* after NoMemory the caller moves the tokens to a larger array and calls again
Grow ==
    /\ pc = "done"
    /\ Len(hist) < MaxCalls
    /\ ~null
    /\ r = JSMN_ERROR_NOMEM
    /\ \E n \in Capacities(doc) :
          /\ n > num_tokens
          /\ num_tokens' = n
          /\ tokens' = tokens \o TokenArray(n - num_tokens)
    /\ pc' = "idle"
    /\ UNCHANGED <<doc, len, null, parser, count, r, hist>>

(***************************************************************************)
(* jsmn_parse, one action per iteration of its scan loop.                  *)
(***************************************************************************)
Scanning == pc = "scan" /\ InBuffer(js, len, parser.pos)
Cur == CharAt(js, parser.pos)

\* the call returns rv, leaving parser p and tokens t
Return(rv, p, t) ==
    /\ parser' = p
    /\ tokens' = t
    /\ r' = rv
    /\ pc' = "done"
    /\ hist' = Append(hist, [len |-> len, num_tokens |-> num_tokens, r |-> rv,
                             parser |-> p, tokens |-> t])
    /\ UNCHANGED <<doc, len, num_tokens, null, count>>

\* what an iteration leaves: the return, or the next iteration one byte on
Commit(b) ==
    IF b.done
    THEN Return(b.r, b.parser, b.tokens)
    ELSE /\ parser' = Advance(b.parser)
         /\ tokens' = b.tokens
         /\ count' = b.count
         /\ UNCHANGED <<doc, len, num_tokens, null, r, pc, hist>>

Iterate == Commit(LoopBody(parser, js, len, tokens, num_tokens, null, count))

OpenStep == Scanning /\ Cur \in {123, 91} /\ Iterate
CloseStep == Scanning /\ Cur \in {125, 93} /\ Iterate
QuoteStep == Scanning /\ Cur = 34 /\ Iterate
SpaceStep == Scanning /\ Cur \in {9, 13, 10, 32} /\ Iterate
ColonStep == Scanning /\ Cur = 58 /\ Iterate
CommaStep == Scanning /\ Cur = 44 /\ Iterate
PrimitiveStep ==
    /\ Scanning
    /\ Cur \notin {123, 91, 125, 93, 34, 9, 13, 10, 32, 58, 44}
    /\ Iterate

\* the buffer is exhausted: Part or the count
Finish ==
    /\ pc = "scan"
    /\ ~InBuffer(js, len, parser.pos)
    /\ Return(EndOfBuffer(parser, tokens, null, count), parser, tokens)

Next ==
    \/ Call
    \/ Retry
    \/ Feed
    \/ Grow
    \/ OpenStep
    \/ CloseStep
    \/ QuoteStep
    \/ SpaceStep
    \/ ColonStep
    \/ CommaStep
    \/ PrimitiveStep
    \/ Finish

Spec == Init /\ [][Next]_vars

\* a step of the running call
ScanStep ==
    \/ OpenStep
    \/ CloseStep
    \/ QuoteStep
    \/ SpaceStep
    \/ ColonStep
    \/ CommaStep
    \/ PrimitiveStep
    \/ Finish

\* the buffers on which termination is checked: every branch of the loop, both
\* scanners with escapes, and each way a call ends early
FairTexts ==
    {<<123, 34, 97, 34, 58, 49, 44, 34, 34, 58, 49, 50, 125>>,  \* {"a":1,"":12}
     <<91, 49, 44, 32, 49, 50, 93>>,                            \* [1, 12]
     <<91, 91, 49, 93, 125>>,                                   \* [[1]}
     <<34, 92, 113, 34>>,                                       \* "\q"
     <<34, 92, 117, 49, 50, 34>>,                               \* "\u12"
     <<49, 0, 50>>,                                             \* 1<NUL>2
     <<49, 1, 50>>,                                             \* 1<0x01>2
     <<91, 49, 44, 44, 50>>}                                    \* [1,,2
FairInit == Init /\ doc.text \in FairTexts
\* jsmn_parse is straight-line sequential code that waits for nothing: a call
\* that has a next step takes it.  The caller is under no such obligation.
FairSpec == FairInit /\ [][Next]_vars /\ WF_vars(ScanStep)

(***************************************************************************)
(* What the properties below speak of.                                     *)
(***************************************************************************)
\* the tokens allocated so far: slots 0 .. toknext-1
Allocated(p, t) == SubSeq(t, 1, p.toknext)
\* one jsmn_parse call with a fresh parser and a fresh array of n slots on the whole document
OneCall(n) == jsmn_parse(JsmnParser_new, js, Len(js), TokenArray(n), n, FALSE)
\* the tokens the grammar gives the document
Needed == Len(doc.toks)
\* kind, start and end of a token
Range(t) == <<t.type_0, t.start, t.end>>
\* the call that just returned is the first one on this parser
FirstReturn == pc = "done" /\ Len(hist) = 1
\* the first call was given only a proper prefix of a well-formed document,
\* the second the whole of it, both with the same array, large enough
SplitInTwo ==
    /\ pc = "done" /\ doc.wf /\ ~null
    /\ Len(hist) = 2
    /\ hist[1].len < Len(js) /\ hist[2].len = Len(js)
    /\ hist[1].num_tokens = num_tokens /\ num_tokens >= Needed

(***************************************************************************)
(* C1.  Resumability: a well-formed document fed in two chunks (the first  *)
(* chunk alone, then the full buffer with the same parser and array)       *)
(* leaves the same allocated tokens and the same toknext as one call on    *)
(* the whole document with a fresh parser.                                 *)
(***************************************************************************)
\* C1: two chunks leave the tokens and toknext of one call on the whole
C1_Resumable ==
    SplitInTwo =>
        /\ parser.toknext = OneCall(num_tokens).parser.toknext
        /\ Allocated(parser, tokens)
               = Allocated(OneCall(num_tokens).parser, OneCall(num_tokens).tokens)

(***************************************************************************)
(* C2.  A well-formed document parsed by one call with a fresh parser      *)
(* yields the count of its elements, and token i has the kind and the      *)
(* [start, end) range of the i-th element of the grammar.  As claimed:     *)
(* whenever the nesting depth is at most the capacity.  As amended:        *)
(* whenever the capacity is at least the number of elements.               *)
(***************************************************************************)
WholeFirstCall == FirstReturn /\ doc.wf /\ ~null /\ hist[1].len = Len(js)
TokensAsGrammar ==
    /\ r = Needed
    /\ parser.toknext = Needed
    /\ \A i \in 1..Needed : Range(tokens[i]) = Range(doc.toks[i])

\* C2 as claimed: with the nesting depth (counted generously: a scalar alone
\* is one level deep) at most the capacity
C2_Original == (WholeFirstCall /\ doc.depth + 1 <= num_tokens) => TokensAsGrammar
\* C2 as amended: with a slot for every element, the count and ranges are the grammar's
C2_TokensMatchSource == (WholeFirstCall /\ num_tokens >= Needed) => TokensAsGrammar
\* a nested document with a string, parsed with room to spare
C2_Witness ==
    /\ WholeFirstCall /\ num_tokens > Needed /\ r = Needed
    /\ doc.depth = 2
    /\ \E i \in 1..Needed : tokens[i].type_0 = JSMN_STRING /\ tokens[i].end > tokens[i].start

(***************************************************************************)
(* C3.  Capacity boundary: a well-formed document that needs N >= 1 tokens *)
(* parses to N with a fresh parser and capacity exactly N, and gives       *)
(* NoMemory with capacity N - 1.                                           *)
(***************************************************************************)
\* C3: capacity N gives N, capacity N - 1 gives NoMemory
C3_CapacityBoundary ==
    (WholeFirstCall /\ Needed >= 1) =>
        /\ num_tokens = Needed => r = Needed
        /\ num_tokens = Needed - 1 => r = JSMN_ERROR_NOMEM
\* one slot short, after some tokens were written
C3_Witness ==
    /\ WholeFirstCall /\ Needed >= 3
    /\ num_tokens = Needed - 1 /\ r = JSMN_ERROR_NOMEM
    /\ parser.toknext = num_tokens

(***************************************************************************)
(* C4.  A step that returns NoMemory leaves toknext, toksuper and every    *)
(* token as they were, and leaves pos on the first byte of the element     *)
(* that found no slot: the bracket, the opening quote, the first byte of   *)
(* the primitive.  In a first call on a well-formed document that element  *)
(* is the grammar's element number toknext + 1.                            *)
(***************************************************************************)
\* the offset where the grammar's i-th element begins (a string: its opening quote)
ElementStart(i) ==
    IF doc.toks[i].type_0 = JSMN_STRING THEN doc.toks[i].start - 1 ELSE doc.toks[i].start

\* C4: a step that returns NoMemory changes nothing and leaves pos on the element
C4_NoMemoryKeepsState ==
    [][(pc = "scan" /\ pc' = "done" /\ r' = JSMN_ERROR_NOMEM) =>
          /\ parser'.toknext = parser.toknext
          /\ parser'.toksuper = parser.toksuper
          /\ tokens' = tokens
          /\ parser'.pos = parser.pos
          /\ (doc.wf /\ hist = <<>>) => parser'.pos = ElementStart(parser.toknext + 1)]_vars
\* NoMemory on a string inside a container, after tokens were written
C4_Witness ==
    /\ pc = "done" /\ r = JSMN_ERROR_NOMEM /\ doc.wf
    /\ parser.toknext >= 2 /\ parser.toksuper >= 0
    /\ CharAt(js, parser.pos) = 34 /\ parser.pos > 0

(***************************************************************************)
(* C5.  NoMemory is recoverable: when every earlier call on the whole of a *)
(* well-formed document returned NoMemory and the caller then passes a     *)
(* larger array that is large enough, holding the tokens already written,  *)
(* the call succeeds with the count and the tokens of one call with a      *)
(* fresh parser and that larger array.                                     *)
(***************************************************************************)
RetriedAfterNoMemory ==
    /\ pc = "done" /\ doc.wf /\ ~null
    /\ Len(hist) >= 2
    /\ \A k \in 1..Len(hist) : hist[k].len = Len(js)
    /\ \A k \in 1..(Len(hist) - 1) : hist[k].r = JSMN_ERROR_NOMEM
    /\ num_tokens > hist[1].num_tokens
    /\ num_tokens >= Needed

\* C5: the retry with a larger array ends as one fresh call with that array
C5_RetryAfterNoMemory ==
    RetriedAfterNoMemory =>
        /\ r >= 0
        /\ r = OneCall(num_tokens).r
        /\ parser.toknext = OneCall(num_tokens).parser.toknext
        /\ Allocated(parser, tokens)
               = Allocated(OneCall(num_tokens).parser, OneCall(num_tokens).tokens)
\* the first call failed on a string after it had written tokens
C5_Witness ==
    /\ RetriedAfterNoMemory /\ r = Needed /\ Needed >= 3
    /\ hist[1].parser.toknext >= 1
    /\ CharAt(js, hist[1].parser.pos) = 34

(***************************************************************************)
(* C6.  The first chunk alone.  As claimed: a fresh parser given a proper  *)
(* prefix of a well-formed document returns Part.  As amended: it returns  *)
(* Part exactly when the prefix ends inside an unterminated string or an   *)
(* unclosed object or array; otherwise it returns the count of the tokens  *)
(* written.                                                                *)
(***************************************************************************)
RECURSIVE EndsUnclosed(_, _, _, _, _)
\* reading text[i..n] from nesting depth d, inside a string or not: whether
\* the n-th byte leaves a string or a bracket open
EndsUnclosed(text, n, i, d, instr) ==
    IF i > n THEN instr \/ d > 0
    ELSE IF instr
    THEN IF text[i] = 92 THEN i + 1 > n \/ EndsUnclosed(text, n, i + 2, d, TRUE)
         ELSE EndsUnclosed(text, n, i + 1, d, text[i] # 34)
    ELSE IF text[i] = 34 THEN EndsUnclosed(text, n, i + 1, d, TRUE)
         ELSE IF text[i] \in {123, 91} THEN EndsUnclosed(text, n, i + 1, d + 1, FALSE)
         ELSE IF text[i] \in {125, 93} THEN EndsUnclosed(text, n, i + 1, d - 1, FALSE)
         ELSE EndsUnclosed(text, n, i + 1, d, FALSE)

FirstChunkAlone ==
    FirstReturn /\ doc.wf /\ ~null /\ len < Len(js) /\ num_tokens >= Needed

\* C6 as claimed: every first chunk returns Part
C6_Original == FirstChunkAlone => r = JSMN_ERROR_PART
\* C6 as amended: Part exactly when the chunk ends in a string or an open container
C6_PartIffUnclosed ==
    FirstChunkAlone =>
        IF EndsUnclosed(js, len, 1, 0, FALSE)
        THEN r = JSMN_ERROR_PART
        ELSE r >= 0 /\ r = parser.toknext
\* a chunk that ends inside a string inside a container
C6_Witness ==
    /\ FirstChunkAlone /\ r = JSMN_ERROR_PART
    /\ parser.toknext >= 1
    /\ parser.pos < len /\ CharAt(js, parser.pos) = 34

(***************************************************************************)
(* C7.  Idempotence of the count: after a call that succeeded and left no  *)
(* token open, a second call with the same buffer and the same array       *)
(* allocates nothing, changes no token and returns the same count.         *)
(***************************************************************************)
CalledAgainUnchanged ==
    /\ pc = "done" /\ ~null
    /\ Len(hist) >= 2
    /\ hist[Len(hist) - 1].r >= 0
    /\ \A i \in 1..hist[Len(hist) - 1].parser.toknext :
           ~IsOpen(hist[Len(hist) - 1].tokens[i])
    /\ hist[Len(hist) - 1].len = len
    /\ hist[Len(hist) - 1].num_tokens = num_tokens

\* C7: the second call returns the same count and changes neither toknext nor a token
C7_CountIdempotent ==
    CalledAgainUnchanged =>
        /\ r = hist[Len(hist) - 1].r
        /\ parser.toknext = hist[Len(hist) - 1].parser.toknext
        /\ tokens = hist[Len(hist) - 1].tokens
\* a second call after a success that wrote several tokens
C7_Witness == CalledAgainUnchanged /\ r >= 3 /\ len = Len(js)

(***************************************************************************)
(* C8.  A closing bracket met while no allocated token is open, or while   *)
(* the open token with the greatest index is of the other kind, makes the  *)
(* call return Invalid and sets no token's end; {"a":1] parsed by a first  *)
(* call with room for its tokens returns Invalid.                          *)
(***************************************************************************)
OpenTokens ==
    {i \in 0..(parser.toknext - 1) : Tok(tokens, i).start # -1 /\ Tok(tokens, i).end = -1}
NearestOpen == CHOOSE i \in OpenTokens : \A j \in OpenTokens : j <= i
KindOfBracket(c) == IF c = 125 THEN JSMN_OBJECT ELSE JSMN_ARRAY
UnmatchedClose ==
    /\ Scanning /\ ~null
    /\ Cur \in {125, 93}
    /\ \/ OpenTokens = {}
       \/ Tok(tokens, NearestOpen).type_0 # KindOfBracket(Cur)

\* C8: a closing bracket with no open token, or one of the other kind, is Invalid
C8_BadCloseIsInvalid ==
    [][/\ UnmatchedClose =>
            /\ pc' = "done" /\ r' = JSMN_ERROR_INVAL
            /\ \A i \in 1..Len(tokens) : tokens'[i].end = tokens[i].end
       /\ (/\ js = <<123, 34, 97, 34, 58, 49, 93>> /\ len = Len(js)
           /\ ~null /\ num_tokens >= 3 /\ hist = <<>> /\ pc' = "done") =>
              r' = JSMN_ERROR_INVAL]_vars
\* a bracket of the wrong kind met while a container is open
C8_Witness ==
    /\ pc = "done" /\ r = JSMN_ERROR_INVAL /\ ~null
    /\ parser.pos < len /\ CharAt(js, parser.pos) \in {125, 93}
    /\ OpenTokens # {} /\ parser.toknext >= 2

(***************************************************************************)
(* C9.  The primitive scanner entered on a run holding a byte outside      *)
(* 0x20..0x7E returns Invalid, with pos back on the run's first byte and   *)
(* no token allocated.  As claimed: the run goes to the next delimiter or  *)
(* the end of the buffer, whatever the byte.  As amended: a NUL byte ends  *)
(* the run as the end of the buffer does, so the bytes that make the run   *)
(* Invalid are the non-printable ones other than NUL.                      *)
(***************************************************************************)
Delimiters == {58, 44, 93, 125, 32, 9, 13, 10}
RECURSIVE RunEnd(_, _, _, _)
\* the offset after the run that starts at i: the next byte of stops, or n
RunEnd(text, n, i, stops) ==
    IF i >= n \/ text[i + 1] \in stops THEN i ELSE RunEnd(text, n, i + 1, stops)
\* the run that starts at pos holds a byte outside printable ASCII
BadRun(stops) ==
    \E k \in parser.pos..(RunEnd(js, len, parser.pos, stops) - 1) :
        js[k + 1] < 32 \/ js[k + 1] > 126
AtPrimitive ==
    Scanning /\ Cur \notin {123, 91, 125, 93, 34, 9, 13, 10, 32, 58, 44}
\* the call has a slot for the run, or only counts: it cannot return NoMemory here
FreeSlot == null \/ parser.toknext < num_tokens
PrimitiveRejected ==
    /\ pc' = "done" /\ r' = JSMN_ERROR_INVAL
    /\ parser'.pos = parser.pos
    /\ parser'.toknext = parser.toknext
    /\ tokens' = tokens

\* C9 as claimed (refuted by a NUL in the run), stated where a slot is free so
\* that what the call returns in Invalid's place is not NoMemory
C9_Original ==
    [][(AtPrimitive /\ FreeSlot /\ BadRun(Delimiters)) => PrimitiveRejected]_vars
\* C9 as amended: a non-printable byte before the run's first NUL is Invalid
C9_NonPrintableIsInvalid ==
    [][(AtPrimitive /\ BadRun(Delimiters \cup {0})) => PrimitiveRejected]_vars
\* [1,2<0x01>] : the control byte ends a run that began with a digit, after two tokens
C9_Witness ==
    /\ pc = "done" /\ r = JSMN_ERROR_INVAL
    /\ js = <<91, 49, 44, 50, 1, 93>> /\ len = Len(js)
    /\ parser.pos = 3 /\ parser.toknext = 2

(***************************************************************************)
(* C10.  The string scanner's errors: Part when the buffer ends before an  *)
(* unescaped closing quote, Invalid on a backslash followed by a byte that *)
(* is no escape and on a \u followed by a byte that is no hex digit among  *)
(* its four; either way pos is back on the opening quote and toknext,      *)
(* toksuper and the tokens are as before the step.  As claimed: the buffer *)
(* ends at its length.  As amended: it ends at its length or at its first  *)
(* NUL byte, so a NUL among the four digits gives Part, not Invalid.       *)
(***************************************************************************)
EscapeBytes == {34, 47, 92, 98, 102, 114, 110, 116}
HexBytes == (48..57) \cup (65..70) \cup (97..102)
EndsAt(text, n, i, nul) == i >= n \/ (nul /\ text[i + 1] = 0)

RECURSIVE HexOutcome(_, _, _, _, _), StringOutcome(_, _, _, _)
\* the digits of a \u from offset i, k of them read
HexOutcome(text, n, i, k, nul) ==
    IF k = 4 THEN StringOutcome(text, n, i, nul)
    ELSE IF EndsAt(text, n, i, nul) THEN "part"
    ELSE IF text[i + 1] \in HexBytes THEN HexOutcome(text, n, i + 1, k + 1, nul)
    ELSE "inval"
\* a string's content from offset i: "closed", "part" or "inval"
StringOutcome(text, n, i, nul) ==
    IF EndsAt(text, n, i, nul) THEN "part"
    ELSE IF text[i + 1] = 34 THEN "closed"
    ELSE IF text[i + 1] = 92
    THEN IF i + 1 >= n THEN "part"
         ELSE IF text[i + 2] \in EscapeBytes THEN StringOutcome(text, n, i + 2, nul)
         ELSE IF text[i + 2] = 117 THEN HexOutcome(text, n, i + 2, 0, nul)
         ELSE "inval"
    ELSE StringOutcome(text, n, i + 1, nul)

StringRejected(rv) ==
    /\ pc' = "done" /\ r' = rv
    /\ parser'.pos = parser.pos
    /\ parser'.toknext = parser.toknext
    /\ parser'.toksuper = parser.toksuper
    /\ tokens' = tokens
StringErrors(nul) ==
    (Scanning /\ Cur = 34) =>
        /\ StringOutcome(js, len, parser.pos + 1, nul) = "part"
               => StringRejected(JSMN_ERROR_PART)
        /\ StringOutcome(js, len, parser.pos + 1, nul) = "inval"
               => StringRejected(JSMN_ERROR_INVAL)

\* C10 as claimed: the buffer ends at its length only
C10_Original == [][StringErrors(FALSE)]_vars
\* C10 as amended: the buffer ends at its length or at a NUL
C10_StringErrors == [][StringErrors(TRUE)]_vars
\* [1,"\x"] : a bad escape met after two tokens were written
C10_Witness ==
    /\ pc = "done" /\ r = JSMN_ERROR_INVAL /\ ~null
    /\ js = <<91, 49, 44, 34, 92, 120, 34, 93>> /\ len = Len(js)
    /\ parser.pos = 3 /\ parser.toknext = 2 /\ parser.toksuper = 0

(***************************************************************************)
(* C11.  Size attribution in objects.  While a well-formed document is     *)
(* parsed, ':' makes the key just emitted the super, the value that        *)
(* follows is counted on that key and on no other token, and ',' makes the *)
(* nearest open Object or Array the super again.  After a success in which *)
(* every call was given the whole document, every key has size 1, every    *)
(* other string and every primitive has size 0, and every Object's size is *)
(* the number of its keys; {"a": "b", "c": 100} gives sizes 2, 1, 0, 1, 0. *)
(***************************************************************************)
\* the document was parsed with success by calls that each had the whole of it
ParsedWhole ==
    /\ pc = "done" /\ doc.wf /\ ~null /\ r >= 0
    /\ \A k \in 1..Len(hist) : hist[k].len = Len(js)

RECURSIVE SkipSpace(_, _)
\* the offset of the first byte at or after i that is not white space
SkipSpace(text, i) ==
    IF i < Len(text) /\ text[i + 1] \in {9, 13, 10, 32} THEN SkipSpace(text, i + 1) ELSE i
\* token i is a string and the text after its closing quote goes on with ':'
IsKey(i) ==
    /\ tokens[i].type_0 = JSMN_STRING
    /\ SkipSpace(js, tokens[i].end + 1) < Len(js)
    /\ js[SkipSpace(js, tokens[i].end + 1) + 1] = 58
IsContainer(t) == t.type_0 = JSMN_OBJECT \/ t.type_0 = JSMN_ARRAY
\* the containers whose byte range holds token j
Around(j) ==
    {k \in 1..(j - 1) : /\ IsContainer(tokens[k])
                        /\ tokens[k].start <= tokens[j].start
                        /\ tokens[j].end <= tokens[k].end}
\* the innermost of them; 0 for a token at the top level
Enclosing(j) == IF Around(j) = {} THEN 0 ELSE CHOOSE k \in Around(j) : \A m \in Around(j) : m <= k
KeysOf(i) == {j \in 1..parser.toknext : IsKey(j) /\ Enclosing(j) = i}

SizesInObjects ==
    ParsedWhole =>
        \A i \in 1..parser.toknext :
            /\ IsKey(i) => tokens[i].size = 1
            /\ (tokens[i].type_0 \in {JSMN_STRING, JSMN_PRIMITIVE} /\ ~IsKey(i))
                   => tokens[i].size = 0
            /\ tokens[i].type_0 = JSMN_OBJECT => tokens[i].size = Cardinality(KeysOf(i))
ExampleObject ==
    js = <<123, 34, 97, 34, 58, 32, 34, 98, 34, 44, 32, 34, 99, 34, 58, 32, 49, 48, 48, 125>>
ExampleObjectSizes ==
    (ParsedWhole /\ ExampleObject) =>
        /\ r = 5
        /\ [i \in 1..5 |-> tokens[i].size] = <<2, 1, 0, 1, 0>>
        /\ [i \in 1..5 |-> Range(tokens[i])]
               = <<<<JSMN_OBJECT, 0, 20>>, <<JSMN_STRING, 2, 3>>, <<JSMN_STRING, 7, 8>>,
                   <<JSMN_STRING, 12, 13>>, <<JSMN_PRIMITIVE, 16, 19>>>>

InWellFormed == Scanning /\ doc.wf /\ ~null
\* ':' : the super becomes the token just emitted, a string
ColonMakesKeySuper ==
    (InWellFormed /\ Cur = 58) =>
        /\ parser'.toksuper = parser.toknext - 1
        /\ parser'.toksuper >= 0
        /\ Tok(tokens', parser'.toksuper).type_0 = JSMN_STRING
\* a token emitted while the super is a key is counted on the key alone
ValueCountsOnKey ==
    (/\ InWellFormed /\ parser.toksuper >= 0
     /\ Tok(tokens, parser.toksuper).type_0 = JSMN_STRING
     /\ parser'.toknext = parser.toknext + 1) =>
        \A i \in 0..(parser.toknext - 1) :
            Tok(tokens', i).size
                = IF i = parser.toksuper THEN Tok(tokens, i).size + 1 ELSE Tok(tokens, i).size
\* ',' : the super becomes the open container with the greatest index
CommaRestoresContainer ==
    (InWellFormed /\ Cur = 44) =>
        /\ OpenTokens # {}
        /\ parser'.toksuper = NearestOpen
        /\ IsContainer(Tok(tokens', parser'.toksuper))

\* C11: a value is counted on its key, ',' restores the container, and after
\* a success keys have size 1, values 0, Objects the number of their keys
C11_SizeAttribution ==
    /\ [](SizesInObjects /\ ExampleObjectSizes)
    /\ [][ColonMakesKeySuper /\ ValueCountsOnKey /\ CommaRestoresContainer]_vars
\* {"a": "b", "c": 100} parsed: the Object counts two keys, each key its value
C11_Witness ==
    /\ ParsedWhole /\ ExampleObject
    /\ tokens[1].size = 2 /\ tokens[2].size = 1 /\ tokens[3].size = 0
    /\ IsKey(2) /\ ~IsKey(3) /\ KeysOf(1) = {2, 4}

(***************************************************************************)
(* C12.  Containers nest inside arrays without a key.  A well-formed       *)
(* document in which an array directly holds an array or an object, parsed *)
(* by one call with a slot for every element, succeeds, and every Array    *)
(* token's size is the number of tokens whose innermost container it is;   *)
(* ["123", {"a": 1, "b": "c"}, 123] with capacity 8 gives 8 tokens, the    *)
(* first an Array of size 3.                                               *)
(***************************************************************************)
\* the same, read off the grammar's tokens: the containers around element j
AroundInDoc(j) ==
    {k \in 1..(j - 1) : /\ IsContainer(doc.toks[k])
                        /\ doc.toks[k].start <= doc.toks[j].start
                        /\ doc.toks[j].end <= doc.toks[k].end}
\* some array of the document directly holds an array or an object
NestsInArray ==
    \E j \in 1..Needed :
        /\ IsContainer(doc.toks[j])
        /\ AroundInDoc(j) # {}
        /\ doc.toks[CHOOSE k \in AroundInDoc(j) : \A m \in AroundInDoc(j) : m <= k].type_0
               = JSMN_ARRAY
ElementsOf(i) == {j \in 1..parser.toknext : Enclosing(j) = i}
ExampleArray ==
    js = <<91, 34, 49, 50, 51, 34, 44, 32, 123, 34, 97, 34, 58, 32, 49, 44, 32,
           34, 98, 34, 58, 32, 34, 99, 34, 125, 44, 32, 49, 50, 51, 93>>

\* C12: arrays holding arrays or objects parse, each Array sized by its elements
C12_NestingInArrays ==
    /\ (WholeFirstCall /\ num_tokens >= Needed /\ NestsInArray) =>
           /\ r = Needed
           /\ \A i \in 1..parser.toknext :
                  tokens[i].type_0 = JSMN_ARRAY => tokens[i].size = Cardinality(ElementsOf(i))
    /\ ExampleArray =>
           /\ OneCall(8).r = 8
           /\ OneCall(8).tokens[1] = [type_0 |-> JSMN_ARRAY, start |-> 0, end |-> 32, size |-> 3]
\* the example parsed: the Array holds a string, an Object and a primitive
C12_Witness ==
    /\ WholeFirstCall /\ ExampleArray /\ NestsInArray
    /\ r = 8 /\ tokens[1].size = 3
    /\ ElementsOf(1) = {2, 3, 8} /\ tokens[3].type_0 = JSMN_OBJECT

(***************************************************************************)
(* C13.  With a token array, a call that succeeds returns the parser's     *)
(* toknext at the return; toknext never decreases, and it grows by exactly *)
(* what the call allocated, so the successful returns on one parser state  *)
(* never decrease from one call to a later one.                            *)
(***************************************************************************)
ReturnsToknext == (pc = "done" /\ ~null /\ r >= 0) => r = parser.toknext
SuccessesNeverDecrease ==
    ~null =>
        \A k \in 1..Len(hist) : \A m \in k..Len(hist) :
            (hist[k].r >= 0 /\ hist[m].r >= 0) =>
                /\ hist[k].r <= hist[m].r
                /\ hist[m].r = hist[m].parser.toknext
ToknextNeverDecreases == parser'.toknext >= parser.toknext

\* C13: a success returns toknext, and toknext and the successes never decrease
C13_ReturnIsToknext ==
    /\ [](ReturnsToknext /\ SuccessesNeverDecrease)
    /\ [][ToknextNeverDecreases]_vars
\* two successes on one parser state, the second after more of the buffer
C13_Witness ==
    /\ pc = "done" /\ ~null /\ Len(hist) = 2
    /\ hist[1].r >= 1 /\ r > hist[1].r
    /\ r = parser.toknext /\ hist[1].len < len

(***************************************************************************)
(* C14.  Completed tokens are never corrupted: an allocated token whose    *)
(* end is set keeps its kind, start and end through every later step of    *)
(* the call, through the caller's moves between calls and through every    *)
(* later call, whatever it returns.                                        *)
(***************************************************************************)
Completed == {i \in 1..parser.toknext : tokens[i].end # -1}
CompletedStay ==
    \A i \in Completed : i <= Len(tokens') /\ Range(tokens'[i]) = Range(tokens[i])
\* every token completed when an earlier call returned is as that call left it
CompletedSinceReturn ==
    \A k \in 1..Len(hist) :
        \A i \in 1..hist[k].parser.toknext :
            hist[k].tokens[i].end # -1 =>
                i <= parser.toknext /\ Range(tokens[i]) = Range(hist[k].tokens[i])

\* C14: a token whose end is set keeps its kind, start and end ever after
C14_CompletedTokensKept ==
    /\ [][CompletedStay]_vars
    /\ []CompletedSinceReturn
\* a second call that returned an error after the first call completed tokens
C14_Witness ==
    /\ pc = "done" /\ ~null /\ Len(hist) = 2
    /\ r \in {JSMN_ERROR_INVAL, JSMN_ERROR_NOMEM, JSMN_ERROR_PART}
    /\ hist[1].len < len
    /\ \E i \in 1..hist[1].parser.toknext : hist[1].tokens[i].end # -1
    /\ parser.toknext > hist[1].parser.toknext

(***************************************************************************)
(* C15.  The implicit stack.  In every state the open allocated tokens are *)
(* Objects and Arrays, one for each bracket of the text before pos that is *)
(* not yet closed, in the order of those brackets.  A closing bracket that *)
(* is accepted sets the end of the open token with the greatest index and  *)
(* leaves as super the greatest index still open, or -1; an opening        *)
(* bracket that is accepted leaves as super the token it allocated.        *)
(***************************************************************************)
RECURSIVE PathAt(_, _, _, _, _)
\* reading text from offset i up to n: the offsets of the brackets opened and
\* not closed, outermost first (stack is the path so far, instr: inside a string)
PathAt(text, n, i, stack, instr) ==
    IF i >= n THEN stack
    ELSE IF instr
    THEN IF text[i + 1] = 92 THEN PathAt(text, n, i + 2, stack, TRUE)
         ELSE PathAt(text, n, i + 1, stack, text[i + 1] # 34)
    ELSE IF text[i + 1] = 34 THEN PathAt(text, n, i + 1, stack, TRUE)
         ELSE IF text[i + 1] \in {123, 91} THEN PathAt(text, n, i + 1, Append(stack, i), FALSE)
         ELSE IF text[i + 1] \in {125, 93} /\ stack # <<>>
         THEN PathAt(text, n, i + 1, SubSeq(stack, 1, Len(stack) - 1), FALSE)
         ELSE PathAt(text, n, i + 1, stack, FALSE)
NestingPath == PathAt(js, parser.pos, 0, <<>>, FALSE)
\* the open tokens below index i
OpenBelow(i) == {j \in OpenTokens : j < i}

OpenAreThePath ==
    ~null =>
        /\ \A i \in OpenTokens : IsContainer(Tok(tokens, i))
        /\ Cardinality(OpenTokens) = Len(NestingPath)
        /\ \A i \in OpenTokens :
               /\ Tok(tokens, i).start = NestingPath[Cardinality(OpenBelow(i)) + 1]
               /\ js[Tok(tokens, i).start + 1]
                      = IF Tok(tokens, i).type_0 = JSMN_OBJECT THEN 123 ELSE 91
CloseTakesInnermost ==
    (Scanning /\ ~null /\ Cur \in {125, 93} /\ pc' = "scan") =>
        /\ OpenTokens # {}
        /\ tokens' = [tokens EXCEPT ![NearestOpen + 1].end = parser.pos + 1]
        /\ parser'.toksuper =
               IF OpenBelow(NearestOpen) = {} THEN -1
               ELSE CHOOSE i \in OpenBelow(NearestOpen) : \A j \in OpenBelow(NearestOpen) : j <= i
OpenBecomesSuper ==
    (Scanning /\ ~null /\ Cur \in {123, 91} /\ pc' = "scan") =>
        /\ parser'.toknext = parser.toknext + 1
        /\ parser'.toksuper = parser.toknext
        /\ IsOpen(Tok(tokens', parser.toknext))
        /\ Tok(tokens', parser.toknext).start = parser.pos

\* C15: the open tokens are the nesting path; close takes the innermost, open becomes super
C15_ImplicitStack ==
    /\ []OpenAreThePath
    /\ [][CloseTakesInnermost /\ OpenBecomesSuper]_vars
\* just after an inner container closed: the outer one is open and is the super
C15_Witness ==
    /\ pc = "scan" /\ ~null /\ parser.pos >= 1
    /\ js[parser.pos] \in {125, 93}
    /\ OpenTokens = {0} /\ parser.toksuper = 0
    /\ \E i \in 1..(parser.toknext - 1) :
           IsContainer(Tok(tokens, i)) /\ Tok(tokens, i).end = parser.pos
    /\ parser.toknext >= 3

(***************************************************************************)
(* C16.  The end-of-buffer rule.  When the scan loop ends because pos has  *)
(* reached the length (or a NUL byte), the call returns Part if and only   *)
(* if some allocated token is open, and otherwise the count, which with a  *)
(* token array is toknext; it leaves the parser and the tokens alone.      *)
(***************************************************************************)
BufferExhausted ==
    pc = "scan" /\ (parser.pos >= len \/ js[parser.pos + 1] = 0)
EndOfBufferRule ==
    BufferExhausted =>
        /\ pc' = "done"
        /\ r' = JSMN_ERROR_PART <=> OpenTokens # {}
        /\ OpenTokens = {} => (r' = count /\ (~null => r' = parser.toknext))
        /\ parser' = parser /\ tokens' = tokens

\* C16: at the end of the buffer, Part exactly when an allocated token is open
C16_EndOfBufferRule == [][EndOfBufferRule]_vars
\* the buffer ended with a container open below completed tokens
C16_Witness ==
    /\ pc = "done" /\ ~null /\ r = JSMN_ERROR_PART
    /\ parser.pos = len
    /\ parser.toknext >= 3
    /\ ~IsOpen(Tok(tokens, parser.toknext - 1))
    /\ OpenTokens # {}

(***************************************************************************)
(* C17.  Termination.  Every call that is entered returns.  An iteration   *)
(* of the scan loop that does not return leaves pos greater than it found  *)
(* it and at most len: by at least one byte after a primitive, which is    *)
(* never empty, and by at least two after a string; the backward scans end *)
(* at an index between -1 and the one they started from.                   *)
(***************************************************************************)
IterationAdvances ==
    (pc = "scan" /\ pc' = "scan") =>
        /\ parser'.pos > parser.pos
        /\ parser'.pos <= len
        /\ Cur = 34 => parser'.pos >= parser.pos + 2
        /\ (AtPrimitive /\ ~null) =>
               /\ Tok(tokens', parser.toknext).start = parser.pos
               /\ Tok(tokens', parser.toknext).end > parser.pos
               /\ parser'.pos = Tok(tokens', parser.toknext).end
BackwardScansEnd ==
    ~null =>
        /\ FindOpen(tokens, parser.toknext - 1) \in -1..(parser.toknext - 1)
        /\ FindOpenContainer(tokens, parser.toknext - 1) \in -1..(parser.toknext - 1)
        /\ \A i \in OpenTokens : FindOpen(tokens, i - 1) \in -1..(i - 1)

\* C17: every call returns; each iteration moves pos forward, each backward scan ends
C17_Terminates ==
    /\ (pc = "scan") ~> (pc = "done")
    /\ [][IterationAdvances]_vars
    /\ []BackwardScansEnd
\* a call that returned after iterations of every branch but the last kind it met
C17_Witness ==
    /\ pc = "done" /\ ~null /\ r >= 5
    /\ parser.pos = len /\ len = Len(js)
    /\ \E i, j, k \in 1..parser.toknext :
           /\ tokens[i].type_0 = JSMN_OBJECT
           /\ tokens[j].type_0 = JSMN_STRING
           /\ tokens[k].type_0 = JSMN_PRIMITIVE

(***************************************************************************)
(* C18.  Index safety.  In every state of a parser that began as           *)
(* JsmnParser::new and was driven by jsmn_parse calls with an array of     *)
(* capacity num_tokens: -1 <= toksuper < toknext <= num_tokens, so that    *)
(* tokens[toksuper], when toksuper is not -1, and every index of a         *)
(* backward scan from toknext - 1 is an allocated slot of the array.  A    *)
(* ':' met before any token was allocated leaves toksuper at -1.           *)
(***************************************************************************)
\* C18: -1 <= toksuper < toknext <= capacity, and both index the caller's array
C18_IndexSafety ==
    /\ -1 <= parser.toksuper
    /\ parser.toksuper < parser.toknext
    /\ parser.toknext <= num_tokens
    /\ Len(tokens) = num_tokens
    /\ parser.toksuper # -1 => parser.toksuper + 1 \in DOMAIN tokens
    /\ \A i \in 0..(parser.toknext - 1) : i + 1 \in DOMAIN tokens
\* :1 with room in the array: the colon was passed with nothing allocated
C18_Witness ==
    /\ pc = "scan" /\ ~null /\ num_tokens >= 1
    /\ js = <<58, 49>> /\ parser.pos = 1
    /\ parser.toknext = 0 /\ parser.toksuper = -1

(***************************************************************************)
(* C19.  Token ordering and range validity.  Through any sequence of calls *)
(* on a buffer that only grows, the allocated tokens are in document       *)
(* order, each starting after the one before it; every allocated token     *)
(* starts inside the buffer given so far, and one whose end is set ends at *)
(* or after its start and inside the buffer.                               *)
(***************************************************************************)
\* C19: starts strictly increase with the index; 0 <= start <= end <= len
C19_OrderedRanges ==
    /\ \A i \in 1..parser.toknext : \A j \in (i + 1)..parser.toknext :
           tokens[i].start < tokens[j].start
    /\ \A i \in 1..parser.toknext :
           /\ 0 <= tokens[i].start /\ tokens[i].start <= len
           /\ tokens[i].end # -1 =>
                  (tokens[i].start <= tokens[i].end /\ tokens[i].end <= len)
\* after a second call on a longer buffer: an empty string among the tokens,
\* a container still open
C19_Witness ==
    /\ pc = "done" /\ ~null /\ Len(hist) = 2 /\ hist[1].len < len
    /\ parser.toknext > hist[1].parser.toknext /\ hist[1].parser.toknext >= 1
    /\ \E i \in 1..parser.toknext : tokens[i].end = -1
    /\ \E i \in 1..parser.toknext :
           tokens[i].type_0 = JSMN_STRING /\ tokens[i].start = tokens[i].end

(***************************************************************************)
(* C20.  Counting mode.  A call with a null token array and a fresh parser *)
(* on the whole of a well-formed document writes no token, leaves toknext  *)
(* at 0 and toksuper at -1 all the way through, and returns the count that *)
(* a call with a fresh parser and an array with a slot for every element   *)
(* returns: the number of elements of the document.                        *)
(***************************************************************************)
CountedWhole == FirstReturn /\ null /\ doc.wf /\ hist[1].len = Len(js)

\* C20: with a null array nothing is written and the count is that of a full parse
C20_CountingMode ==
    /\ null => (tokens = <<>> /\ parser.toknext = 0 /\ parser.toksuper = -1)
    /\ CountedWhole =>
           /\ r = OneCall(Needed).r
           /\ r = Needed
           /\ parser.pos = Len(js)
\* a nested document with a key, a string and a primitive was counted
C20_Witness ==
    /\ CountedWhole /\ r >= 5 /\ doc.depth = 2
    /\ \E i \in 1..Len(js) : js[i] = 58
    /\ \E i \in 1..Len(js) : js[i] = 44
    /\ parser.toksuper = -1 /\ parser.toknext = 0

====
